---- MODULE Spec2Model ----
(***************************************************************************)
(* Model of src/mortality.py: catch_count, p_fate and m_fate, three pure   *)
(* functions over pandas DataFrames.                                       *)
(*                                                                         *)
(* A DataFrame is a bag (multiset) of row records: the functions read it   *)
(* only through boolean masks, groupby sums and column sums, none of which *)
(* depends on the order of the rows or on the row index.                   *)
(* A float is the exact fraction [num, den]; den = 0 (with num = 0) is the *)
(* NaN that numpy's 0/0 yields.  Rounding of IEEE doubles is not modelled. *)
(* A call's outcome is [kind |-> "return", value |-> v] or a record whose  *)
(* kind names the exception that leaves the function.                      *)
(***************************************************************************)
EXTENDS Integers, FiniteSets, Sequences, Bags, TLC

VARIABLES catch_df, fate_df, mortality_df, call, ret

vars == <<catch_df, fate_df, mortality_df, call, ret>>

----------------------------------------------------------------------------
(* Bounds and input vocabularies *)

MaxCatchRows == 3
MaxFateRows == 4
MaxMortalityRows == 3
MaxAnyFamilyRows == 2

\* The list with its last entry dropped.
non_shark_families_short == {"Dasyatidae", "Mobulidae", "Myliobatidae", "Rajidae"}

\* The ray families the code excludes (src/mortality.py, lines 4-10).
non_shark_families == {"Dasyatidae", "Mobulidae", "Myliobatidae", "Rajidae", "Torpedinidae"}

SharkFamily == "Carcharhinidae"

Fates == {"discard_alive", "discard_dead", "retained"}
BogusFate == "bogus_fate"
Domains == {"coastal", "offshore"}
OtherDomain == "high_seas"

\* The fate_type vocabulary, listed in ascending lexical order (the order in
\* which groupby, sort=True, lays out the group keys).
FateTypeOrder == <<"discard_alive", "discard_dead", "retained_damaged", "retained_whole">>
FateTypes == {FateTypeOrder[i] : i \in DOMAIN FateTypeOrder}
EstimateTypes == {"at-vessel mortality", "post-release mortality"}
Rfmos == {"Non-RFMO", "ICCAT"}
SampleSizes == {0, 1}
CatchTypes == {"Landings", "Discards"}
CatchSums == {-1, 0, 1, 2}
MedWeights == {-3, 0, 1, 3, 7}

CatchRows == [catch_type : CatchTypes, sum : CatchSums]
FateRows == [family : {SharkFamily, "Rajidae"}, rfmo : Rfmos,
             fate_type : FateTypes, sample_size : SampleSizes]
MortalityRows == [family : {SharkFamily, "Mobulidae"},
                  estimate_type : EstimateTypes, sample_size : SampleSizes]

\* The ray and skate families, as the specification lists them.
RayFamilies == {"Dasyatidae", "Mobulidae", "Myliobatidae", "Rajidae", "Torpedinidae"}
AnyFamilyFateRows == [family : {SharkFamily} \cup RayFamilies, rfmo : Rfmos,
                      fate_type : FateTypes, sample_size : SampleSizes]
AnyFamilyMortalityRows == [family : {SharkFamily} \cup RayFamilies,
                           estimate_type : EstimateTypes, sample_size : SampleSizes]

----------------------------------------------------------------------------
(* pandas / numpy primitives *)

\* df[mask]: the rows of df that are in mask (the set of the rows for which
\* the boolean mask is True), each with its multiplicity.
Filter(df, mask) == [r \in DOMAIN df \cap mask |-> df[r]]

\* df[col].sum(): the sum of column col over the rows; 0 for no rows.
ColumnSum(df, col) ==
    LET S[D \in SUBSET DOMAIN df] ==
            IF D = {} THEN 0
            ELSE LET r == CHOOSE x \in D : TRUE
                 IN df[r] * r[col] + S[D \ {r}]
    IN S[DOMAIN df]

\* df.groupby(key)[col].sum(): a Series indexed by the keys that occur.
GroupBySum(df, key, col) ==
    [k \in {r[key] : r \in DOMAIN df} |->
        ColumnSum(Filter(df, {r \in DOMAIN df : r[key] = k}), col)]

\* Series.sum() of an integer Series.
SeriesTotal(s) ==
    LET S[D \in SUBSET DOMAIN s] ==
            IF D = {} THEN 0
            ELSE LET k == CHOOSE x \in D : TRUE
                 IN s[k] + S[D \ {k}]
    IN S[DOMAIN s]

NaN == [num |-> 0, den |-> 0]
IsNaN(x) == x.den = 0
Zero == [num |-> 0, den |-> 1]
One == [num |-> 1, den |-> 1]

\* series / scalar, elementwise true division: no exception, 0/0 is NaN.
SeriesDiv(s, total) == [k \in DOMAIN s |-> [num |-> s[k], den |-> total]]

FloatAdd(a, b) == [num |-> a.num * b.den + b.num * a.den, den |-> a.den * b.den]
FloatEq(a, b) == ~IsNaN(a) /\ ~IsNaN(b) /\ a.num * b.den = b.num * a.den

\* Series.sum() of a float Series: skipna drops the NaN entries, and the sum
\* of nothing is 0.0.
FloatSeriesSum(s) ==
    LET S[D \in SUBSET DOMAIN s] ==
            IF D = {} THEN Zero
            ELSE LET k == CHOOSE x \in D : TRUE
                 IN IF IsNaN(s[k]) THEN S[D \ {k}] ELSE FloatAdd(s[k], S[D \ {k}])
    IN S[DOMAIN s]

\* Position of a fate_type label in ascending lexical order.
Rank(k) == CHOOSE i \in DOMAIN FateTypeOrder : FateTypeOrder[i] = k

\* series.iloc[:2] in place of series.iloc[-2:]: the first two entries.
ILocFirstTwo(s) ==
    [k \in {x \in DOMAIN s : Cardinality({y \in DOMAIN s : Rank(y) < Rank(x)}) < 2}
        |-> s[k]]

\* series.iloc[-1:] in place of series.iloc[-2:]: the last entry alone.
ILocLast(s) ==
    [k \in {x \in DOMAIN s : \A y \in DOMAIN s : Rank(y) <= Rank(x)} |-> s[k]]

\* series.iloc[-2:]: the last two entries of the sorted index (all of them
\* when there are fewer than two).
ILocLastTwo(s) ==
    [k \in {x \in DOMAIN s : Cardinality({y \in DOMAIN s : Rank(y) > Rank(x)}) < 2}
        |-> s[k]]

\* round(x / d) in place of int(x / d): to the nearest integer, halves up.
IntRound(x, d) ==
    LET ad == IF d < 0 THEN -d ELSE d
        sx == IF d < 0 THEN -x ELSE x
    IN (2 * sx + ad) \div (2 * ad)

\* int(x / d) for integers x and d # 0: truncation toward zero.
IntTrunc(x, d) ==
    LET ax == IF x < 0 THEN -x ELSE x
        ad == IF d < 0 THEN -d ELSE d
        q == ax \div ad
    IN IF (x < 0) = (d < 0) THEN q ELSE -q

Return(v) == [kind |-> "return", value |-> v]
Raise(e) == [kind |-> e]

\* The family mask left out: every row is kept.
AllRows(df) == df

\* ~df.family.isin(non_shark_families)
SharkRows(df) == Filter(df, {r \in DOMAIN df : r.family \notin non_shark_families})

----------------------------------------------------------------------------
(* The three functions *)

\* catch_count with the catch_type mask left out: every row is summed.
catch_count_unmasked(df, fate, med_weight) ==
    IF med_weight = 0
    THEN Raise("DivisionError")
    ELSE Return(IntTrunc(ColumnSum(df, "sum") * 1000, med_weight))

\* Line 35 divides by med_weight unguarded.  With med_weight = 0 an exception
\* leaves the function whatever the dtype of the sum: ZeroDivisionError for a
\* Python number, and for a numpy scalar the quotient is NaN or inf and int()
\* raises ValueError or OverflowError.  The model names them all DivisionError.
catch_count(df, fate, med_weight) ==
    LET total_catch ==
            IF fate = "retained"
            THEN ColumnSum(Filter(df, {r \in DOMAIN df : r.catch_type = "Landings"}), "sum")
            ELSE ColumnSum(Filter(df, {r \in DOMAIN df : r.catch_type = "Discards"}), "sum")
    IN IF med_weight = 0
       THEN Raise("DivisionError")
       ELSE Return(IntTrunc(total_catch * 1000, med_weight))

p_fate(df, fate, domain) ==
    LET fate_shark == SharkRows(df)
        fate_non_rfmo_shark ==
            IF domain = "coastal"
            THEN Filter(fate_shark, {r \in DOMAIN fate_shark : r.rfmo = "Non-RFMO"})
            ELSE Filter(fate_shark, {r \in DOMAIN fate_shark : r.rfmo # "Non-RFMO"})
        sums == GroupBySum(fate_non_rfmo_shark, "fate_type", "sample_size")
        fate_probs == SeriesDiv(sums, SeriesTotal(sums))
    IN IF fate = "retained" /\ domain = "coastal"
       THEN Return(FloatSeriesSum(ILocLastTwo(fate_probs)))
       ELSE IF fate = "retained" /\ domain = "offshore"
       THEN IF "retained_whole" \in DOMAIN fate_probs
            THEN Return(fate_probs["retained_whole"])
            ELSE Raise("KeyError")
       ELSE IF fate \in DOMAIN fate_probs
            THEN Return(fate_probs[fate])
            ELSE Raise("IndexError")

\* m_fate with the group looked up before the fate is inspected.
m_fate_eager_lookup(df, fate, domain) ==
    LET sums == GroupBySum(SharkRows(df), "estimate_type", "sample_size")
        post_release_probs == SeriesDiv(sums, SeriesTotal(sums))
    IN IF "post-release mortality" \notin DOMAIN post_release_probs
       THEN Raise("IndexError")
       ELSE IF fate = "discard_alive"
       THEN Return(post_release_probs["post-release mortality"])
       ELSE IF fate \in {"discard_dead", "retained"}
       THEN Return(One)
       ELSE Raise("TypeError")

\* m_fate with a bare else in place of the elif: no fate is rejected.
m_fate_no_reject(df, fate, domain) ==
    LET sums == GroupBySum(SharkRows(df), "estimate_type", "sample_size")
        post_release_probs == SeriesDiv(sums, SeriesTotal(sums))
    IN IF fate = "discard_alive"
       THEN IF "post-release mortality" \in DOMAIN post_release_probs
            THEN Return(post_release_probs["post-release mortality"])
            ELSE Raise("IndexError")
       ELSE Return(One)

m_fate(df, fate, domain) ==
    LET mortality_shark == SharkRows(df)
        sums == GroupBySum(mortality_shark, "estimate_type", "sample_size")
        post_release_probs == SeriesDiv(sums, SeriesTotal(sums))
    IN IF fate = "discard_alive"
       THEN IF "post-release mortality" \in DOMAIN post_release_probs
            THEN Return(post_release_probs["post-release mortality"])
            ELSE Raise("IndexError")
       ELSE IF fate \in {"discard_dead", "retained"}
       THEN Return(One)
       ELSE Raise("TypeError")

----------------------------------------------------------------------------
(* State machine: a caller builds a table row by row and passes it to one   *)
(* call.  The functions are pure and keep nothing between calls, so a      *)
(* behaviour ends with the call's outcome in ret.                          *)

NoCall == [op |-> "none"]

Init ==
    /\ catch_df = EmptyBag
    /\ fate_df = EmptyBag
    /\ mortality_df = EmptyBag
    /\ call = NoCall
    /\ ret = Raise("none")

AddCatchRow(r) ==
    /\ call = NoCall
    /\ BagCardinality(catch_df) < MaxCatchRows
    /\ catch_df' = catch_df (+) SetToBag({r})
    /\ call' = NoCall
    /\ ret' = Raise("none")
    /\ UNCHANGED <<fate_df, mortality_df>>

CallCatchCount(fate, med_weight) ==
    /\ call = NoCall
    /\ call' = [op |-> "catch_count", fate |-> fate, med_weight |-> med_weight]
    /\ ret' = catch_count(catch_df, fate, med_weight)
    /\ UNCHANGED <<catch_df, fate_df, mortality_df>>

NextCatch ==
    \/ \E r \in CatchRows : AddCatchRow(r)
    \/ \E f \in Fates \cup {BogusFate}, w \in MedWeights : CallCatchCount(f, w)

SpecCatch == Init /\ [][NextCatch]_vars

AddFateRow(r, max) ==
    /\ call = NoCall
    /\ BagCardinality(fate_df) < max
    /\ fate_df' = fate_df (+) SetToBag({r})
    /\ call' = NoCall
    /\ ret' = Raise("none")
    /\ UNCHANGED <<catch_df, mortality_df>>

CallPFate(fate, domain) ==
    /\ call = NoCall
    /\ call' = [op |-> "p_fate", fate |-> fate, domain |-> domain]
    /\ ret' = p_fate(fate_df, fate, domain)
    /\ UNCHANGED <<catch_df, fate_df, mortality_df>>

NextFate ==
    \/ \E r \in FateRows : AddFateRow(r, MaxFateRows)
    \/ \E f \in Fates, d \in Domains : CallPFate(f, d)

SpecFate == Init /\ [][NextFate]_vars

AddMortalityRow(r, max) ==
    /\ call = NoCall
    /\ BagCardinality(mortality_df) < max
    /\ mortality_df' = mortality_df (+) SetToBag({r})
    /\ call' = NoCall
    /\ ret' = Raise("none")
    /\ UNCHANGED <<catch_df, fate_df>>

CallMFate(fate, domain) ==
    /\ call = NoCall
    /\ call' = [op |-> "m_fate", fate |-> fate, domain |-> domain]
    /\ ret' = m_fate(mortality_df, fate, domain)
    /\ UNCHANGED <<catch_df, fate_df, mortality_df>>

NextMortality ==
    \/ \E r \in MortalityRows : AddMortalityRow(r, MaxMortalityRows)
    \/ \E f \in Fates \cup {BogusFate}, d \in Domains \cup {OtherDomain} : CallMFate(f, d)

SpecMortality == Init /\ [][NextMortality]_vars

\* The tables of SpecAnyFamily draw their rows from every family; a behaviour
\* works on one of the two sample tables.
NextAnyFamily ==
    \/ \E r \in AnyFamilyFateRows :
          mortality_df = EmptyBag /\ AddFateRow(r, MaxAnyFamilyRows)
    \/ \E r \in AnyFamilyMortalityRows :
          fate_df = EmptyBag /\ AddMortalityRow(r, MaxAnyFamilyRows)
    \/ \E f \in Fates \cup {BogusFate}, d \in Domains \cup {OtherDomain} :
          mortality_df = EmptyBag /\ CallPFate(f, d)
    \/ \E f \in Fates \cup {BogusFate}, d \in Domains \cup {OtherDomain} :
          fate_df = EmptyBag /\ CallMFate(f, d)

SpecAnyFamily == Init /\ [][NextAnyFamily]_vars

Next == NextCatch \/ NextFate \/ NextMortality \/ NextAnyFamily

Spec == Init /\ [][Next]_vars

----------------------------------------------------------------------------
(* Claims about catch_count (SpecCatch) *)

\* The catch_type that the fate selects, as the specification states it.
SelectedCatchType(fate) == IF fate = "retained" THEN "Landings" ELSE "Discards"

\* W: the summed weight of the rows of catch_df with the selected catch_type.
SelectedWeight(fate) ==
    ColumnSum([r \in {x \in DOMAIN catch_df : x.catch_type = SelectedCatchType(fate)}
                  |-> catch_df[r]],
              "sum")

\* C3: with non-negative sum values and a strictly positive medianWeight,
\* catch_count returns a non-negative integer n = floor(W * 1000 / medianWeight),
\* that is n * medianWeight <= W * 1000 < (n + 1) * medianWeight, W being the
\* summed weight of the Landings rows for "retained" and of the Discards rows
\* for any other fate.
C3_CatchCountIsFloor ==
    ( /\ call.op = "catch_count"
      /\ call.med_weight > 0
      /\ \A r \in DOMAIN catch_df : r.sum >= 0 )
    => /\ ret.kind = "return"
       /\ ret.value \in Nat
       /\ ret.value * call.med_weight <= SelectedWeight(call.fate) * 1000
       /\ SelectedWeight(call.fate) * 1000 < (ret.value + 1) * call.med_weight

\* Two Landings rows and a Discards row, medianWeight 3: 2000 / 3 truncates to 666.
C3_Witness ==
    /\ call.op = "catch_count"
    /\ call.fate = "retained"
    /\ call.med_weight = 3
    /\ \A r \in DOMAIN catch_df : r.sum >= 0
    /\ \E r \in DOMAIN catch_df : r.catch_type = "Discards" /\ r.sum > 0
    /\ BagCardinality(Filter(catch_df, {r \in DOMAIN catch_df : r.catch_type = "Landings"})) = 2
    /\ ret = Return(666)

NoSelectedRow ==
    /\ call.op = "catch_count"
    /\ \A r \in DOMAIN catch_df : r.catch_type # SelectedCatchType(call.fate)

\* C9 as stated: when no row has the catch_type that the fate selects,
\* catch_count returns 0 whatever medianWeight is.
C9_Original == NoSelectedRow => ret = Return(0)

\* C9 as amended: when no row has the catch_type that the fate selects,
\* catch_count returns 0 for every medianWeight other than 0, and raises an
\* exception (the division by zero) for medianWeight 0.
C9_EmptySelectionIsZero ==
    NoSelectedRow =>
        IF call.med_weight = 0 THEN ret.kind = "DivisionError" ELSE ret = Return(0)

\* A table whose only rows are of the other catch_type, with weight in them.
C9_Witness ==
    /\ NoSelectedRow
    /\ call.med_weight # 0
    /\ \E r \in DOMAIN catch_df : r.sum > 0
    /\ ret = Return(0)

----------------------------------------------------------------------------
(* Claims about m_fate (SpecMortality) *)

IsShark(r) == r.family \notin RayFamilies

\* The summed sample_size of the shark rows of mortality_df whose
\* estimate_type is in types.
MortalitySamples(types) ==
    ColumnSum([r \in {x \in DOMAIN mortality_df : IsShark(x) /\ x.estimate_type \in types}
                  |-> mortality_df[r]],
              "sample_size")

\* C6: m_fate(table, "discard_dead", domain) and m_fate(table, "retained",
\* domain) return exactly 1 for every table (empty, rays only, zero total
\* sample_size included) and every domain value; they never fail.
C6_CertainDeathIsOne ==
    (call.op = "m_fate" /\ call.fate \in {"discard_dead", "retained"})
    => ret = Return(One)

\* A table of rays only (no shark row at all), an unrecognised domain.
C6_Witness ==
    /\ call.op = "m_fate"
    /\ call.fate = "retained"
    /\ call.domain = OtherDomain
    /\ mortality_df # EmptyBag
    /\ \A r \in DOMAIN mortality_df : ~IsShark(r)
    /\ ret = Return(One)

\* C7: m_fate called with a fate outside {"discard_alive", "discard_dead",
\* "retained"} fails with the invalid-argument error (TypeError) and returns no
\* value, whatever the table contains and whatever the domain.
C7_UnknownFateRejected ==
    (call.op = "m_fate" /\ call.fate \notin Fates) => ret = Raise("TypeError")

\* An unknown fate on a table that has post-release mortality samples of sharks.
C7_Witness ==
    /\ call.op = "m_fate"
    /\ call.fate = BogusFate
    /\ MortalitySamples({"post-release mortality"}) > 0
    /\ ret.kind = "TypeError"

\* C8: when the shark rows have a non-zero total sample_size and contain the
\* estimate_type "post-release mortality", m_fate(table, "discard_alive", domain)
\* equals (summed sample_size of the shark rows with that estimate_type) /
\* (summed sample_size of all shark rows), for every domain value alike.
C8_DiscardAliveIsPostReleaseShare ==
    ( /\ call.op = "m_fate"
      /\ call.fate = "discard_alive"
      /\ MortalitySamples(EstimateTypes) # 0
      /\ \E r \in DOMAIN mortality_df :
            IsShark(r) /\ r.estimate_type = "post-release mortality" )
    => /\ ret.kind = "return"
       /\ ~IsNaN(ret.value)
       /\ ret.value.num * MortalitySamples(EstimateTypes)
            = MortalitySamples({"post-release mortality"})
                * ret.value.den
       /\ \A d \in Domains \cup {OtherDomain} :
             m_fate(mortality_df, "discard_alive", d) = ret

\* Sharks with both estimate types, and a ray row that carries samples: the
\* share is strictly between 0 and 1.
C8_Witness ==
    /\ call.op = "m_fate"
    /\ call.fate = "discard_alive"
    /\ \E r \in DOMAIN mortality_df : ~IsShark(r) /\ r.sample_size > 0
    /\ ret.kind = "return"
    /\ 0 < ret.value.num
    /\ ret.value.num < ret.value.den

----------------------------------------------------------------------------
(* Claims about p_fate (SpecFate) *)

InDomain(r, domain) ==
    IF domain = "coastal" THEN r.rfmo = "Non-RFMO" ELSE r.rfmo # "Non-RFMO"

\* The summed sample_size of the shark rows of fate_df in the domain whose
\* fate_type is in types.
FateSamples(domain, types) ==
    ColumnSum([r \in {x \in DOMAIN fate_df :
                        IsShark(x) /\ InDomain(x, domain) /\ x.fate_type \in types}
                  |-> fate_df[r]],
              "sample_size")

DomainTotal(domain) == FateSamples(domain, FateTypes)

\* The fate_type groups of the domain's shark rows.
GroupsPresent(domain) ==
    {r.fate_type : r \in {x \in DOMAIN fate_df : IsShark(x) /\ InDomain(x, domain)}}

\* The same groups in ascending order of fate_type, and the last two of them.
SortedGroups(domain) == SelectSeq(FateTypeOrder, LAMBDA k : k \in GroupsPresent(domain))

LastTwoGroups(domain) ==
    LET g == SortedGroups(domain)
    IN {g[i] : i \in {j \in 1..Len(g) : j >= Len(g) - 1}}

\* The three outcomes of p_fate for the called domain: the one the call
\* returned, and the other two fates on the same table.
OutcomeOf(fate) ==
    IF fate = call.fate THEN ret ELSE p_fate(fate_df, fate, call.domain)

FatesSumToOne ==
    /\ \A f \in Fates : OutcomeOf(f).kind = "return" /\ ~IsNaN(OutcomeOf(f).value)
    /\ FloatEq(FloatAdd(OutcomeOf("discard_alive").value,
                        FloatAdd(OutcomeOf("discard_dead").value,
                                 OutcomeOf("retained").value)),
               One)

\* C1 as stated: for each domain and every table whose shark rows of that
\* domain have a non-zero total sample_size, p_fate of discard_alive, of
\* discard_dead and of retained add up to 1.
C1_Original ==
    (call.op = "p_fate" /\ DomainTotal(call.domain) # 0) => FatesSumToOne

\* The groups the domain's data is expected to hold: both discard groups, and
\* the retained sub-categories (two for coastal, retained_whole alone offshore).
ExpectedGroups(domain) ==
    IF domain = "coastal"
    THEN {"discard_alive", "discard_dead", "retained_damaged", "retained_whole"}
    ELSE {"discard_alive", "discard_dead", "retained_whole"}

\* C1 as amended: for each domain and every table whose shark rows of that
\* domain have a non-zero total sample_size and hold exactly the groups
\* discard_alive, discard_dead and the domain's retained sub-categories
\* (retained_damaged and retained_whole for coastal, retained_whole alone for
\* offshore), the three p_fate values add up to 1.
C1_FatesSumToOne ==
    ( /\ call.op = "p_fate"
      /\ DomainTotal(call.domain) # 0
      /\ GroupsPresent(call.domain) = ExpectedGroups(call.domain) )
    => FatesSumToOne

\* Coastal sharks in all four groups, each with samples: retained is 2/4.
C1_Witness ==
    /\ call.op = "p_fate"
    /\ call.domain = "coastal"
    /\ call.fate = "retained"
    /\ \A k \in FateTypes : FateSamples("coastal", {k}) > 0
    /\ ret.kind = "return"
    /\ FloatEq(ret.value, [num |-> 1, den |-> 2])

\* The group(s) that p_fate must read for the fate and domain are all absent.
RequiredGroupAbsent ==
    IF call.fate = "retained"
    THEN IF call.domain = "coastal"
         THEN GroupsPresent("coastal") \cap {"retained_damaged", "retained_whole"} = {}
         ELSE "retained_whole" \notin GroupsPresent(call.domain)
    ELSE call.fate \notin GroupsPresent(call.domain)

\* C4 as stated: when the fate_type group that p_fate must read is absent from
\* the grouped distribution of the domain's shark rows, p_fate fails with a
\* lookup error and returns no number.
C4_Original ==
    (call.op = "p_fate" /\ RequiredGroupAbsent) => ret.kind \in {"KeyError", "IndexError"}

\* C5 as stated: when the domain's shark rows have a total sample_size of zero
\* (no such rows, or rows of sample_size 0 only), p_fate fails for every fate
\* and returns neither NaN nor any number.
C5_Original ==
    (call.op = "p_fate" /\ DomainTotal(call.domain) = 0) => ret.kind # "return"

\* C10: when the coastal shark rows have a non-zero total sample_size,
\* p_fate(table, "retained", "coastal") equals the summed share of the last two
\* fate_type groups, the groups present taken in ascending order of fate_type,
\* and lies in [0, 1].
C10_CoastalRetainedIsLastTwo ==
    ( /\ call.op = "p_fate"
      /\ call.fate = "retained"
      /\ call.domain = "coastal"
      /\ DomainTotal("coastal") # 0 )
    => /\ ret.kind = "return"
       /\ ret.value.den > 0
       /\ ret.value.num * DomainTotal("coastal")
            = FateSamples("coastal", LastTwoGroups("coastal"))
                * ret.value.den
       /\ 0 <= ret.value.num
       /\ ret.value.num <= ret.value.den

\* Three coastal groups with samples, so that the last two are not all of
\* them: the result is strictly between 0 and 1.
C10_Witness ==
    /\ call.op = "p_fate"
    /\ call.fate = "retained"
    /\ call.domain = "coastal"
    /\ Len(SortedGroups("coastal")) >= 3
    /\ FateSamples("coastal", FateTypes \ LastTwoGroups("coastal")) > 0
    /\ ret.kind = "return"
    /\ 0 < ret.value.num
    /\ ret.value.num < ret.value.den

----------------------------------------------------------------------------
(* Claim about the family mask of p_fate and m_fate (SpecAnyFamily) *)

\* Two outcomes are the same: the same failure, or the same value (NaN
\* counting as the same as NaN).
SameOutcome(a, b) ==
    /\ a.kind = b.kind
    /\ a.kind = "return" =>
          \/ IsNaN(a.value) /\ IsNaN(b.value)
          \/ FloatEq(a.value, b.value)

IsRay(r) == r.family \in RayFamilies

\* C2: adding to a table a row whose family is one of Dasyatidae, Mobulidae,
\* Myliobatidae, Rajidae, Torpedinidae (any rfmo, fate_type or estimate_type,
\* any sample_size) leaves the outcome of p_fate and of m_fate unchanged for
\* every fate and every domain: the same value, or the same failure.
C2_RayRowsNeverInfluence ==
    [][ /\ (\E r \in DOMAIN fate_df' :
               IsRay(r) /\ fate_df' = fate_df (+) SetToBag({r}))
           => \A f \in Fates \cup {BogusFate}, d \in Domains \cup {OtherDomain} :
                 SameOutcome(p_fate(fate_df', f, d), p_fate(fate_df, f, d))
        /\ (\E r \in DOMAIN mortality_df' :
               IsRay(r) /\ mortality_df' = mortality_df (+) SetToBag({r}))
           => \A f \in Fates \cup {BogusFate}, d \in Domains \cup {OtherDomain} :
                 SameOutcome(m_fate(mortality_df', f, d), m_fate(mortality_df, f, d))
      ]_vars

\* A shark row and a ray row of the same domain and of different fate types,
\* both with samples: p_fate still returns the whole mass for the shark's group.
C2_Witness ==
    /\ call.op = "p_fate"
    /\ call.fate = "discard_alive"
    /\ \E r \in DOMAIN fate_df :
          /\ IsRay(r) /\ r.sample_size > 0 /\ InDomain(r, call.domain)
          /\ r.fate_type # "discard_alive"
    /\ \E r \in DOMAIN fate_df : IsShark(r) /\ r.sample_size > 0
    /\ ret = Return([num |-> 1, den |-> 1])

====
